---- MODULE Spec2Model ----
(***************************************************************************)
(* Face registry (Milvus collection "faces"), the embedding services and   *)
(* the Redis/RQ job pipeline of api-flask-facial-recognition.              *)
(*                                                                         *)
(* Embeddings are vectors of Dim integer coordinates; distances are the    *)
(* L2 metric of the Milvus index, i.e. the sum of squared differences.     *)
(***************************************************************************)
EXTENDS Integers, Sequences, FiniteSets, TLC

(* ------------------------------ bounds -------------------------------- *)
NumThreads == 2      \* Flask request threads / direct service callers
NumWorkers == 2      \* RQ worker processes (run_worker.py)
MaxRows    == 2      \* rows counted by the collection statistic plus rows in flight
MaxFaces   == 2      \* detections per image
MaxTopK    == 2      \* top_k values a caller passes
MaxJobs    == 2      \* jobs ever enqueued
MaxSuspect == 1      \* suspect ids 1..MaxSuspect
MaxCoord   == 1      \* embedding coordinates 0..MaxCoord
Dim        == 1      \* embedding length
MaxTime    == 1      \* seconds the clock may advance
MaxMetaVal == 1      \* metadata values 1..MaxMetaVal
MaxThreshold == 12   \* compare thresholds 0..MaxThreshold, in tenths
MaxAttempts == 2     \* connection attempts the server may be asked for

Threads == 1..NumThreads
Workers == (NumThreads + 1)..(NumThreads + NumWorkers)
Callers == Threads \cup Workers

(* Python's None, per type: -1 among the integers, "None" among the        *)
(* strings, the empty string among the paths, a tagged record among the    *)
(* dicts.                                                                  *)
NoneId == -1
None == "None"
NoPath == <<>>
NoDict == [none |-> TRUE]

Suspects == 1..MaxSuspect
Embeddings == [1..Dim -> 0..MaxCoord]

(* A metadata dict maps some of the keys to a value.                       *)
MetaKeys == {"a", "b"}
MetaMaps == UNION {[K -> 1..MaxMetaVal] : K \in SUBSET MetaKeys}
EmptyMap == [k \in {} |-> 0]

(* An image is what the extractor makes of it: "corrupt" when PIL cannot    *)
(* decode it, otherwise the list of detections (each one its embedding);   *)
(* "absent" when the request carries no image.                             *)
DetectionLists == UNION {[1..n -> Embeddings] : n \in 0..MaxFaces}
Corrupt == [kind |-> "corrupt", detections |-> <<>>]
NoImage == [kind |-> "absent", detections |-> <<>>]
Images == {Corrupt} \cup {[kind |-> "faces", detections |-> d] : d \in DetectionLists}

VARIABLES
    hasCollection,   \* utility.has_collection("faces")
    registry,        \* rows of the collection, in insertion order
    rowStat,         \* collection.num_entities: flushed rows, deleted ones included until compaction
    pc,              \* per caller: where it stands
    loc,             \* per caller: locals of the running call
    jobs,            \* RQ jobs by id (Redis job hashes)
    queue,           \* ids waiting in "faces_register_queue"
    webhook,         \* the POSTs made to the Java receiver, in order
    seen,            \* per job: the status the last get_job_status read reported
    now,             \* int(time.time())
    facenet,         \* models/facenet.py: _model, the holder of _lock, instances built
    ret              \* what the last step returned to its caller (NoRet for an inner step)

vars == <<hasCollection, registry, rowStat, pc, loc, jobs, queue, webhook, seen, now,
          facenet, ret>>

regVars == <<hasCollection, registry, rowStat>>
jobVars == <<jobs, queue, webhook, seen>>

NoRet == [op |-> "none"]
NoLoc == [caller |-> "none"]

(* ------------------------------ helpers -------------------------------- *)
RECURSIVE SumSq(_, _, _)
SumSq(a, b, i) ==
    IF i = 0 THEN 0
    ELSE (a[i] - b[i]) * (a[i] - b[i]) + SumSq(a, b, i - 1)

\* metric_type "L2" of the index: squared euclidean distance
L2(a, b) == SumSq(a, b, Dim)

\* float("inf") of detect_and_search_faces: larger than every distance
Inf == Dim * MaxCoord * MaxCoord + 1

RECURSIVE SelectSeqIdx(_, _, _)
SelectSeqIdx(s, keep, i) ==
    IF i > Len(s) THEN <<>>
    ELSE (IF i \in keep THEN <<s[i]>> ELSE <<>>) \o SelectSeqIdx(s, keep, i + 1)

Unflushed(rows) == {i \in DOMAIN rows : ~rows[i].flushed}
FlushedLive(rows) == {i \in DOMAIN rows : rows[i].flushed}

\* collection.flush(): every pending row is sealed and counted
FlushAll(rows) == [i \in DOMAIN rows |-> [rows[i] EXCEPT !.flushed = TRUE]]

\* calls that have been admitted to insert_face, or to the reinsert of
\* update_face, and have not inserted yet
Inserting ==
    {t \in Callers : pc[t] \in {"insert_count", "insert_insert", "update_insert"}}

\* the rows num_entities will count once every admitted insert is flushed
RowsAhead == rowStat + Cardinality(Unflushed(registry)) + Cardinality(Inserting)

\* bound on the size of the collection: room for one more insert_face call
Room == RowsAhead < MaxRows

\* update_face reinserts a row it has deleted: it is admitted with the
\* collection full as well
UpdateRoom == RowsAhead <= MaxRows

(* ------------------------------ Init ----------------------------------- *)
Init ==
    /\ hasCollection = FALSE
    /\ registry = <<>>
    /\ rowStat = 0
    /\ pc = [t \in Callers |-> "idle"]
    /\ loc = [t \in Callers |-> NoLoc]
    /\ jobs = <<>>
    /\ queue = <<>>
    /\ webhook = <<>>
    /\ seen = <<>>
    /\ now = 0
    /\ facenet = [model |-> 0, lock |-> 0, built |-> 0]
    /\ ret = NoRet

(* ------------------- milvus_service.insert_face ------------------------ *)
\* line 122: int(suspect_id) if suspect_id else 0
StoredSuspect(suspect_id) ==
    IF suspect_id = NoneId \/ suspect_id = 0 THEN 0 ELSE suspect_id

\* a faulty variant of NextFaceId: the count itself is the id
NextFaceIdCount(total_count) == total_count

\* lines 116-117: face_id = int(collection.num_entities) + 1
NextFaceId(total_count) == total_count + 1

\* line 125: str(metadata or {}), the repr of the dict.  The text is JSON
\* only for the empty dict; json.dumps and repr differ on every string key
PyStr(metadata) ==
    [fmt |-> IF DOMAIN metadata = {} THEN "json" ELSE "repr", map |-> metadata]

\* lines 120-128: the row handed to collection.insert
NewRow(l) ==
    [face_id    |-> l.face_id,
     suspect_id |-> StoredSuspect(l.suspect_id),
     embedding  |-> l.embedding,
     timestamp  |-> l.timestamp,
     is_query   |-> l.is_query,
     metadata   |-> PyStr(l.metadata),
     s3_path    |-> l.s3_path,
     flushed    |-> FALSE]

\* lines 105-117 for caller t: connect, create the collection when it is
\* missing, read the entity count and derive the id
InsertFaceBegin(t, caller, suspect_id, embedding, is_query, metadata, s3_path, job, detections) ==
    /\ Room
    /\ hasCollection' = TRUE
    /\ pc' = [pc EXCEPT ![t] = "insert_insert"]
    /\ loc' = [loc EXCEPT ![t] =
                 [caller |-> caller, suspect_id |-> suspect_id,
                  embedding |-> embedding, is_query |-> is_query,
                  face_id |-> NextFaceId(rowStat), timestamp |-> now,
                  metadata |-> metadata, s3_path |-> s3_path,
                  job |-> job, detections |-> detections]]
    /\ UNCHANGED <<registry, rowStat>>

\* an exception leaves insert_face: what the caller of insert_face does with it
InsertFaceRaised(t) ==
    LET l == loc[t] IN
    CASE l.caller = "api" ->
            /\ pc' = [pc EXCEPT ![t] = "idle"]
            /\ loc' = [loc EXCEPT ![t] = NoLoc]
            /\ ret' = [op |-> "insert_face", outcome |-> "raise"]
      [] l.caller = "register_face" ->
            \* faces_controller.py 122-124
            /\ pc' = [pc EXCEPT ![t] = "idle"]
            /\ loc' = [loc EXCEPT ![t] = NoLoc]
            /\ ret' = [op |-> "register_face", status |-> 500,
                       extract |-> "ok"]
      [] l.caller = "process_register_face" ->
            \* workers.py 98-110: face_id is still None
            /\ pc' = [pc EXCEPT ![t] = "notify"]
            /\ loc' = [loc EXCEPT ![t] =
                         [caller |-> "process_register_face", job |-> l.job,
                          suspect_id |-> l.suspect_id, status |-> "failed",
                          face_id |-> NoneId, error |-> "registry_error"]]
            /\ ret' = NoRet

\* insert_face has returned face_id: what its caller does next
InsertFaceReturned(t) ==
    LET l == loc[t] IN
    CASE l.caller = "api" ->
            /\ pc' = [pc EXCEPT ![t] = "idle"]
            /\ loc' = [loc EXCEPT ![t] = NoLoc]
            /\ ret' = [op |-> "insert_face", outcome |-> "ok",
                       face_id |-> l.face_id, embedding |-> l.embedding,
                       is_query |-> l.is_query]
      [] l.caller = "register_face" ->
            \* faces_controller.py 84-89
            /\ pc' = [pc EXCEPT ![t] = "idle"]
            /\ loc' = [loc EXCEPT ![t] = NoLoc]
            /\ ret' = [op |-> "register_face", status |-> 201,
                       extract |-> "ok", face_id |-> l.face_id,
                       suspect_id |-> l.suspect_id, embedding |-> l.embedding]
      [] l.caller = "process_register_face" ->
            \* workers.py 81-89
            /\ pc' = [pc EXCEPT ![t] = "notify"]
            /\ loc' = [loc EXCEPT ![t] =
                         [caller |-> "process_register_face", job |-> l.job,
                          suspect_id |-> l.suspect_id, status |-> "completed",
                          face_id |-> l.face_id, error |-> None]]
            /\ ret' = NoRet

\* a direct call of the service function
insert_face(t, suspect_id, embedding, is_query, metadata, s3_path) ==
    /\ pc[t] = "idle"
    /\ InsertFaceBegin(t, "api", suspect_id, embedding, is_query, metadata,
                       s3_path, 0, <<>>)
    /\ ret' = NoRet
    /\ UNCHANGED jobVars
    /\ UNCHANGED <<now, facenet>>

\* line 130: collection.insert(data)
insert_face_insert(t) ==
    /\ pc[t] = "insert_insert"
    /\ IF hasCollection
       THEN /\ registry' = Append(registry, NewRow(loc[t]))
            /\ pc' = [pc EXCEPT ![t] = "insert_flush"]
            /\ ret' = [op |-> "collection.insert",
                       caller |-> loc[t].caller,
                       suspect_id |-> loc[t].suspect_id,
                       detections |-> loc[t].detections]
            /\ UNCHANGED <<hasCollection, rowStat, loc>>
       ELSE /\ InsertFaceRaised(t)
            /\ UNCHANGED <<hasCollection, registry, rowStat>>
    /\ UNCHANGED jobVars
    /\ UNCHANGED <<now, facenet>>

\* lines 131-135: collection.flush(); collection.load(); return face_id.
\* ok is FALSE when flush or load raises although the collection is there
\* (the server times out or cannot be reached); the inserted row stays
insert_face_flush(t, ok) ==
    /\ pc[t] = "insert_flush"
    /\ IF hasCollection /\ ok
       THEN /\ registry' = FlushAll(registry)
            /\ rowStat' = rowStat + Cardinality(Unflushed(registry))
            /\ InsertFaceReturned(t)
            /\ UNCHANGED hasCollection
       ELSE /\ InsertFaceRaised(t)
            /\ UNCHANGED <<hasCollection, registry, rowStat>>
    /\ UNCHANGED jobVars
    /\ UNCHANGED <<now, facenet>>

\* Milvus compacts segments in the background: deleted rows leave the
\* statistic that num_entities reports
Compaction ==
    /\ hasCollection
    /\ rowStat > Cardinality(FlushedLive(registry))
    /\ rowStat' = Cardinality(FlushedLive(registry))
    /\ ret' = NoRet
    /\ UNCHANGED <<hasCollection, registry, pc, loc>>
    /\ UNCHANGED jobVars
    /\ UNCHANGED <<now, facenet>>

(* --------------------- milvus_service.connect_milvus ------------------- *)
\* lines 34-41: one connections.connect("default", host, port); what it
\* raises leaves connect_milvus.  results[k] tells whether the server would
\* accept the k-th connection attempt
ConnectMilvus(results) ==
    [attempts |-> 1, raised |-> ~results[1]]

\* a direct call of the service function
connect_milvus(t, results) ==
    /\ pc[t] = "idle"
    /\ ret' = [op |-> "connect_milvus", results |-> results,
               attempts |-> ConnectMilvus(results).attempts,
               raised |-> ConnectMilvus(results).raised]
    /\ UNCHANGED <<regVars, pc, loc, jobVars>>
    /\ UNCHANGED <<now, facenet>>

(* ------------------ milvus_service.search_similar_faces ---------------- *)
Range(f) == {f[i] : i \in DOMAIN f}

\* a faulty variant of VisibleSets: a row that passed flush/load may still be
\* hidden from a reader
VisibleSetsLazy(rows) == SUBSET DOMAIN rows

\* rows a reader may see: every flushed row, and any of the rows whose
\* inserting path has not passed flush/load yet
VisibleSets(rows) ==
    {FlushedLive(rows) \cup u : u \in SUBSET Unflushed(rows)}

\* lines 173-176: collection.query(expr="is_query == false")
RegisteredFaces(rows, vis) == {i \in vis : ~rows[i].is_query}

\* line 182
ValidFaceIds(rows, vis) == {rows[i].face_id : i \in RegisteredFaces(rows, vis)}

\* line 192: expr = "face_id in [valid_face_ids]"
SearchCandidates(rows, vis) ==
    {i \in vis : rows[i].face_id \in ValidFaceIds(rows, vis)}

Min2(a, b) == IF a < b THEN a ELSE b

\* lines 186-193: collection.search(limit=top_k) over the candidates: the
\* possible hit lists, nearest first, rows at equal distance in any order
SearchHits(rows, cands, embedding, top_k) ==
    LET n == Min2(top_k, Cardinality(cands))
        d(i) == L2(rows[i].embedding, embedding)
    IN  {h \in [1..n -> cands] :
            /\ \A i, j \in 1..n : i < j => (h[i] # h[j] /\ d(h[i]) <= d(h[j]))
            /\ \A c \in cands \ Range(h) : \A i \in 1..n : d(h[i]) <= d(c)}

RECURSIVE KeptFrom(_, _, _)
KeptFrom(rows, hits, i) ==
    IF i > Len(hits) THEN <<>>
    ELSE (IF ~rows[hits[i]].is_query THEN <<hits[i]>> ELSE <<>>)
         \o KeptFrom(rows, hits, i + 1)

\* a faulty variant of KeptHits: the filter of line 198 is left out
KeptHitsAll(rows, hits) == hits

\* line 198: the hits whose entity is not a query
KeptHits(rows, hits) == KeptFrom(rows, hits, 1)

\* lines 199-203: the dict appended for a hit
Matches(rows, kept, embedding) ==
    [i \in DOMAIN kept |->
        [face_id    |-> rows[kept[i]].face_id,
         suspect_id |-> rows[kept[i]].suspect_id,
         distance   |-> L2(rows[kept[i]].embedding, embedding)]]

\* lines 163-206 as seen with the rows vis: the lists the call may return,
\* each with the rows its matches stand for and the rows the vector search
\* ran over
SearchVisible(rows, vis, embedding, top_k) ==
    IF RegisteredFaces(rows, vis) = {}
    THEN {[raised |-> FALSE, matches |-> <<>>, hit_rows |-> <<>>,
           cand_rows |-> {}]}
    ELSE {[raised |-> FALSE,
           matches |-> Matches(rows, KeptHits(rows, h), embedding),
           hit_rows |-> KeptHits(rows, h),
           cand_rows |-> SearchCandidates(rows, vis)] :
            h \in SearchHits(rows, SearchCandidates(rows, vis), embedding, top_k)}

\* every outcome of search_similar_faces(embedding, top_k) in this state;
\* it raises when the collection does not exist (lines 165-166)
SearchOutcomes(embedding, top_k) ==
    IF ~hasCollection
    THEN {[raised |-> TRUE, matches |-> <<>>, hit_rows |-> <<>>,
           cand_rows |-> {}]}
    ELSE UNION {SearchVisible(registry, vis, embedding, top_k) :
                  vis \in VisibleSets(registry)}

\* a direct call of the service function
search_similar_faces(t, embedding, top_k) ==
    /\ pc[t] = "idle"
    /\ \E out \in SearchOutcomes(embedding, top_k) :
          ret' = [op |-> "search_similar_faces",
                  embedding |-> embedding, top_k |-> top_k,
                  outcome |-> IF out.raised THEN "raise" ELSE "ok",
                  matches |-> out.matches, hit_rows |-> out.hit_rows,
                  cand_rows |-> out.cand_rows]
    /\ UNCHANGED <<hasCollection, registry, rowStat, pc, loc>>
    /\ UNCHANGED jobVars
    /\ UNCHANGED <<now, facenet>>

(* --------------------- faces_controller: deletes ----------------------- *)
\* line 525: MutationResult.delete_count for the expression face_id == x:
\* the rows removed, or the one key the expression names, by server version
DeleteCounts(gone) == {Cardinality(gone), 1}

\* a faulty variant of delete_face: an id without a record is an error
delete_face_strict(t, face_id) ==
    /\ pc[t] = "idle"
    /\ LET gone == {i \in DOMAIN registry : registry[i].face_id = face_id} IN
         /\ registry' = SelectSeqIdx(registry, DOMAIN registry \ gone, 1)
         /\ ret' = IF ~hasCollection \/ gone = {}
                   THEN [op |-> "delete_face", status |-> 404]
                   ELSE [op |-> "delete_face", status |-> 200,
                         face_id |-> face_id,
                         delete_count |-> Cardinality(gone)]
    /\ UNCHANGED <<hasCollection, rowStat, pc, loc>>
    /\ UNCHANGED jobVars
    /\ UNCHANGED <<now, facenet>>

\* lines 508-531
delete_face(t, face_id) ==
    /\ pc[t] = "idle"
    /\ IF ~hasCollection
       THEN /\ ret' = [op |-> "delete_face", status |-> 404]
            /\ UNCHANGED registry
       ELSE LET gone == {i \in DOMAIN registry : registry[i].face_id = face_id}
            IN  /\ registry' = SelectSeqIdx(registry, DOMAIN registry \ gone, 1)
                /\ \E n \in DeleteCounts(gone) :
                      ret' = [op |-> "delete_face", status |-> 200,
                              face_id |-> face_id, delete_count |-> n]
    /\ UNCHANGED <<hasCollection, rowStat, pc, loc>>
    /\ UNCHANGED jobVars
    /\ UNCHANGED <<now, facenet>>

\* lines 710-746
delete_faces_by_suspect(t, suspect_id) ==
    /\ pc[t] = "idle"
    /\ IF ~hasCollection
       THEN /\ ret' = [op |-> "delete_faces_by_suspect", status |-> 404]
            /\ UNCHANGED <<registry, rowStat>>
       ELSE LET gone == {i \in DOMAIN registry : registry[i].suspect_id = suspect_id}
                kept == SelectSeqIdx(registry, DOMAIN registry \ gone, 1)
            IN  IF gone = {}
                THEN /\ ret' = [op |-> "delete_faces_by_suspect",
                                status |-> 404]
                     /\ UNCHANGED <<registry, rowStat>>
                ELSE /\ registry' = FlushAll(kept)
                     /\ rowStat' = rowStat + Cardinality(Unflushed(kept))
                     /\ ret' = [op |-> "delete_faces_by_suspect",
                                status |-> 200, suspect_id |-> suspect_id,
                                total_deleted |-> Cardinality(gone)]
    /\ UNCHANGED <<hasCollection, pc, loc>>
    /\ UNCHANGED jobVars
    /\ UNCHANGED <<now, facenet>>

\* lines 552-567
clear_collection(t) ==
    /\ pc[t] = "idle"
    /\ hasCollection' = FALSE
    /\ registry' = <<>>
    /\ rowStat' = 0
    /\ ret' = [op |-> "clear_collection", status |-> 200]
    /\ UNCHANGED <<pc, loc>>
    /\ UNCHANGED jobVars
    /\ UNCHANGED <<now, facenet>>

(* ------------------- faces_controller.update_face ----------------------- *)
\* line 670: json.dumps(merged_metadata)
JsonDumps(metadata) == [fmt |-> "json", map |-> metadata]

\* lines 648-651: json.loads of the stored text; the repr of a dict is not
\* JSON and raises
JsonLoads(text) ==
    IF text.fmt = "json" THEN [ok |-> TRUE, value |-> text.map]
    ELSE [ok |-> FALSE, value |-> EmptyMap]

\* line 653: {**old_metadata, **new_metadata}
MergeDicts(old_metadata, new_metadata) ==
    [k \in DOMAIN old_metadata \cup DOMAIN new_metadata |->
        IF k \in DOMAIN new_metadata THEN new_metadata[k] ELSE old_metadata[k]]

(* --------------- faces_controller.list_faces_by_suspect ----------------- *)
\* lines 393-397: the dict returned for a row: the metadata text is replaced
\* by its parse when it is JSON and left as text otherwise
ListedFace(row) ==
    [face_id   |-> row.face_id,
     timestamp |-> row.timestamp,
     metadata  |-> IF JsonLoads(row.metadata).ok
                   THEN [parsed |-> TRUE, value |-> JsonLoads(row.metadata).value]
                   ELSE [parsed |-> FALSE, value |-> row.metadata.map],
     s3_path   |-> row.s3_path,
     source    |-> IF row.s3_path # NoPath THEN "s3" ELSE "upload"]

\* lines 380-383: collection.query("is_query == false and suspect_id == x")
ListedRows(rows, vis, suspect_id) ==
    {i \in vis : ~rows[i].is_query /\ rows[i].suspect_id = suspect_id}

\* lines 353-409; faces maps each row of the answer to its dict
list_faces_by_suspect(t, suspect_id) ==
    /\ pc[t] = "idle"
    /\ IF ~hasCollection
       THEN ret' = [op |-> "list_faces_by_suspect", status |-> 404,
                    suspect_id |-> suspect_id, faces |-> <<>>]
       ELSE \E vis \in VisibleSets(registry) :
            LET results == ListedRows(registry, vis, suspect_id) IN
            ret' = [op |-> "list_faces_by_suspect",
                    status |-> IF results = {} THEN 404 ELSE 200,
                    suspect_id |-> suspect_id,
                    faces |-> [i \in results |-> ListedFace(registry[i])]]
    /\ UNCHANGED <<regVars, pc, loc, jobVars>>
    /\ UNCHANGED <<now, facenet>>

\* lines 598-659: the two queries, the new values, delete and flush.  With
\* several rows under face_id each query answers with any one of them.
update_face(t, face_id, new_suspect_id, new_metadata) ==
    /\ pc[t] = "idle"
    /\ IF ~hasCollection
       THEN /\ ret' = [op |-> "update_face", status |-> 404]
            /\ UNCHANGED <<regVars, pc, loc>>
       ELSE \E vis \in VisibleSets(registry) :
            LET existing == {i \in vis : registry[i].face_id = face_id}
                gone == {i \in DOMAIN registry : registry[i].face_id = face_id}
            IN
            IF existing = {}
            THEN /\ ret' = [op |-> "update_face", status |-> 404]
                 /\ UNCHANGED <<regVars, pc, loc>>
            ELSE \E cur \in existing, emb \in existing :
                 LET current == registry[cur]
                     old_metadata == JsonLoads(current.metadata).value
                 IN
                 /\ UpdateRoom
                 /\ registry' = FlushAll(SelectSeqIdx(registry,
                                           DOMAIN registry \ gone, 1))
                 /\ rowStat' = rowStat + Cardinality(Unflushed(registry))
                 /\ pc' = [pc EXCEPT ![t] = "update_insert"]
                 /\ loc' = [loc EXCEPT ![t] =
                              [caller |-> "update_face", face_id |-> face_id,
                               suspect_id |-> IF new_suspect_id # NoneId
                                              THEN new_suspect_id
                                              ELSE current.suspect_id,
                               embedding |-> registry[emb].embedding,
                               timestamp |-> current.timestamp,
                               is_query |-> current.is_query,
                               metadata |-> MergeDicts(old_metadata, new_metadata),
                               s3_path |-> current.s3_path,
                               new_metadata |-> new_metadata,
                               before |-> registry]]
                 /\ ret' = NoRet
                 /\ UNCHANGED hasCollection
    /\ UNCHANGED jobVars
    /\ UNCHANGED <<now, facenet>>

\* lines 661-672: collection.insert(data_insert); a dropped collection makes
\* the call raise and the handler answer 500 (685-688)
update_face_insert(t) ==
    /\ pc[t] = "update_insert"
    /\ IF hasCollection
       THEN /\ registry' = Append(registry,
                  [face_id    |-> loc[t].face_id,
                   suspect_id |-> loc[t].suspect_id,
                   embedding  |-> loc[t].embedding,
                   timestamp  |-> loc[t].timestamp,
                   is_query   |-> loc[t].is_query,
                   metadata   |-> JsonDumps(loc[t].metadata),
                   s3_path    |-> loc[t].s3_path,
                   flushed    |-> FALSE])
            /\ pc' = [pc EXCEPT ![t] = "update_flush"]
            /\ ret' = NoRet
            /\ UNCHANGED loc
       ELSE /\ pc' = [pc EXCEPT ![t] = "idle"]
            /\ loc' = [loc EXCEPT ![t] = NoLoc]
            /\ ret' = [op |-> "update_face", status |-> 500]
            /\ UNCHANGED registry
    /\ UNCHANGED <<hasCollection, rowStat>>
    /\ UNCHANGED jobVars
    /\ UNCHANGED <<now, facenet>>

\* lines 673-683: flush, load and the 200 answer
update_face_flush(t) ==
    /\ pc[t] = "update_flush"
    /\ IF hasCollection
       THEN /\ registry' = FlushAll(registry)
            /\ rowStat' = rowStat + Cardinality(Unflushed(registry))
            /\ ret' = [op |-> "update_face", status |-> 200,
                       face_id |-> loc[t].face_id,
                       suspect_id |-> loc[t].suspect_id,
                       metadata |-> loc[t].metadata,
                       new_metadata |-> loc[t].new_metadata,
                       before |-> loc[t].before]
       ELSE /\ ret' = [op |-> "update_face", status |-> 500]
            /\ UNCHANGED <<registry, rowStat>>
    /\ pc' = [pc EXCEPT ![t] = "idle"]
    /\ loc' = [loc EXCEPT ![t] = NoLoc]
    /\ UNCHANGED hasCollection
    /\ UNCHANGED jobVars
    /\ UNCHANGED <<now, facenet>>

\* a second passes
Tick ==
    /\ now < MaxTime
    /\ now' = now + 1
    /\ ret' = NoRet
    /\ UNCHANGED <<regVars, pc, loc, jobVars, facenet>>

(* --------------------- models/facenet.get_facenet_model ---------------- *)
\* facenet.model is _model (0 for None, else the number of the FaceNet
\* instance), facenet.lock the thread inside "with _lock" (0 when free),
\* facenet.built the instances constructed so far
\* line 9: the unlocked test of _model
get_facenet_model(t) ==
    /\ pc[t] = "idle"
    /\ pc' = [pc EXCEPT ![t] = IF facenet.model = 0 THEN "fn_lock" ELSE "fn_return"]
    /\ loc' = [loc EXCEPT ![t] = [caller |-> "get_facenet_model"]]
    /\ ret' = NoRet
    /\ UNCHANGED <<regVars, jobVars, now, facenet>>

\* line 10: with _lock
get_facenet_model_acquire(t) ==
    /\ pc[t] = "fn_lock"
    /\ facenet.lock = 0
    /\ facenet' = [facenet EXCEPT !.lock = t]
    /\ pc' = [pc EXCEPT ![t] = "fn_check"]
    /\ ret' = NoRet
    /\ UNCHANGED <<regVars, jobVars, now, loc>>

\* a faulty variant of get_facenet_model_check: the test under the lock is
\* left out
get_facenet_model_nocheck(t) ==
    /\ pc[t] = "fn_check"
    /\ pc' = [pc EXCEPT ![t] = "fn_build"]
    /\ ret' = NoRet
    /\ UNCHANGED <<regVars, jobVars, now, loc, facenet>>

\* line 11: the test of _model under the lock; the lock is released on the
\* way out when the model is there
get_facenet_model_check(t) ==
    /\ pc[t] = "fn_check"
    /\ IF facenet.model = 0
       THEN /\ pc' = [pc EXCEPT ![t] = "fn_build"]
            /\ UNCHANGED facenet
       ELSE /\ pc' = [pc EXCEPT ![t] = "fn_return"]
            /\ facenet' = [facenet EXCEPT !.lock = 0]
    /\ ret' = NoRet
    /\ UNCHANGED <<regVars, jobVars, now, loc>>

\* lines 12-14: _model = FaceNet() and the end of the with block; when the
\* constructor raises (ok is FALSE) the lock is released and the exception
\* leaves the call
get_facenet_model_build(t, ok) ==
    /\ pc[t] = "fn_build"
    /\ IF ok
       THEN /\ facenet' = [model |-> facenet.built + 1, lock |-> 0,
                           built |-> facenet.built + 1]
            /\ pc' = [pc EXCEPT ![t] = "fn_return"]
            /\ ret' = NoRet
            /\ UNCHANGED loc
       ELSE /\ facenet' = [facenet EXCEPT !.lock = 0]
            /\ pc' = [pc EXCEPT ![t] = "idle"]
            /\ loc' = [loc EXCEPT ![t] = NoLoc]
            /\ ret' = [op |-> "get_facenet_model", outcome |-> "raise",
                       caller |-> t]
    /\ UNCHANGED <<regVars, jobVars, now>>

\* line 15: return _model
get_facenet_model_return(t) ==
    /\ pc[t] = "fn_return"
    /\ pc' = [pc EXCEPT ![t] = "idle"]
    /\ loc' = [loc EXCEPT ![t] = NoLoc]
    /\ ret' = [op |-> "get_facenet_model", outcome |-> "ok", caller |-> t,
               model |-> facenet.model]
    /\ UNCHANGED <<regVars, jobVars, now, facenet>>

(* ----------------------- embeddings_service ---------------------------- *)
\* a faulty variant of generate_embeddings: the last detection is used
generate_embeddings_last(image) ==
    IF image.kind = "corrupt" THEN [status |-> 500]
    ELSE IF Len(image.detections) = 0 THEN [status |-> 400]
    ELSE [status |-> 200,
          embedding |-> image.detections[Len(image.detections)]]

\* a faulty variant of generate_embeddings: an image without a face yields a
\* zero embedding instead of the 400 answer
generate_embeddings_default(image) ==
    IF image.kind = "corrupt" THEN [status |-> 500]
    ELSE IF Len(image.detections) = 0
         THEN [status |-> 200, embedding |-> [i \in 1..Dim |-> 0]]
    ELSE [status |-> 200, embedding |-> image.detections[1]]

\* generate_embeddings, lines 43-87: the embedding is that of detections[0]
generate_embeddings(image) ==
    IF image.kind = "corrupt" THEN [status |-> 500]
    ELSE IF Len(image.detections) = 0 THEN [status |-> 400]
    ELSE [status |-> 200, embedding |-> image.detections[1]]

\* compare_embeddings, line 90: threshold=0.7, in tenths
DefaultThreshold == 7
Thresholds == 0..MaxThreshold

\* a faulty variant of SamePerson: a distance equal to the threshold counts
SamePersonInclusive(v1, v2, threshold) ==
    100 * L2(v1, v2) <= threshold * threshold

\* lines 125-126: norm(v1 - v2) < threshold.  The norm is the square root
\* of the sum of squares and the threshold is in tenths; neither side is
\* negative, so the squares compare as the numbers do
SamePerson(v1, v2, threshold) ==
    100 * L2(v1, v2) < threshold * threshold

\* compare_embeddings, lines 113-134: distance_sq is the square of the
\* distance in the answer
CompareResult(image1, image2, threshold) ==
    LET emb1 == generate_embeddings(image1)
        emb2 == generate_embeddings(image2)
    IN  IF emb1.status # 200 \/ emb2.status # 200
        THEN [status |-> 400]
        ELSE [status |-> 200,
              distance_sq |-> L2(emb1.embedding, emb2.embedding),
              same_person |-> SamePerson(emb1.embedding, emb2.embedding, threshold)]

\* a direct call of the service function
compare_embeddings(t, image1, image2, threshold) ==
    /\ pc[t] = "idle"
    /\ ret' = [op |-> "compare_embeddings", image1 |-> image1,
               image2 |-> image2, threshold |-> threshold,
               result |-> CompareResult(image1, image2, threshold)]
    /\ UNCHANGED <<regVars, pc, loc, jobVars>>
    /\ UNCHANGED <<now, facenet>>

\* embeddings_controller.compare, lines 32-59: POST /compare with the
\* threshold left at its default
compare(t, image1, image2) ==
    /\ pc[t] = "idle"
    /\ ret' = [op |-> "compare", image1 |-> image1, image2 |-> image2,
               threshold |-> DefaultThreshold,
               result |-> IF image1 = NoImage \/ image2 = NoImage
                          THEN [status |-> 400]
                          ELSE CompareResult(image1, image2, DefaultThreshold)]
    /\ UNCHANGED <<regVars, pc, loc, jobVars>>
    /\ UNCHANGED <<now, facenet>>

\* lines 214-219: best match and its distance for one detection
BestMatch(matches) == IF Len(matches) > 0 THEN matches[1] ELSE NoDict
\* a faulty variant of BestDistance: a detection without candidates is at
\* distance 0
BestDistanceZero(matches) == IF Len(matches) > 0 THEN matches[1].distance ELSE 0

BestDistance(matches) == IF Len(matches) > 0 THEN matches[1].distance ELSE Inf

RECURSIVE ArgMinFrom(_, _, _)
\* np.argmin: 0-based index of the first smallest element
ArgMinFrom(ds, i, best) ==
    IF i > Len(ds) THEN best - 1
    ELSE ArgMinFrom(ds, i + 1, IF ds[i] < ds[best] THEN i ELSE best)

ArgMin(ds) == ArgMinFrom(ds, 1, 1)

\* a faulty variant of WinnerIndex: the first detection always wins
WinnerIndexFirst(all_distances) == 0

\* line 224
WinnerIndex(all_distances) == ArgMin(all_distances)

\* lines 207-222: one search per detection; every combination of the lists
\* the searches may return
PerFaceSearches(detections, top_k) ==
    LET lists(j) == {o.matches : o \in SearchOutcomes(detections[j], top_k)}
        all == UNION {lists(j) : j \in DOMAIN detections}
    IN  {f \in [DOMAIN detections -> all] :
            \A j \in DOMAIN detections : f[j] \in lists(j)}

\* lines 201-257 for the lists per_face returned by the searches
SelectWinner(detections, per_face) ==
    LET all_matches == [j \in DOMAIN detections |-> BestMatch(per_face[j])]
        all_distances == [j \in DOMAIN detections |-> BestDistance(per_face[j])]
        winner_index == WinnerIndex(all_distances)
    IN  [status |-> 200,
         faces |-> Len(detections),
         winner_index |-> winner_index,
         winner_match |-> all_matches[winner_index + 1],
         per_face |-> per_face]

\* detect_and_search_faces, lines 187-260: every result the call may give
detect_and_search_faces(image, top_k) ==
    IF image.kind = "corrupt" THEN {[status |-> 500]}
    ELSE IF Len(image.detections) = 0 THEN {[status |-> 400]}
    ELSE IF ~hasCollection THEN {[status |-> 500]}
    ELSE {SelectWinner(image.detections, pf) :
            pf \in PerFaceSearches(image.detections, top_k)}

\* what the extractor made of the image, for the caller's outcome
Extracted(image) ==
    IF image.kind = "corrupt" THEN "corrupt"
    ELSE IF Len(image.detections) = 0 THEN "no_face" ELSE "ok"

(* --------------------------- S3 paths ---------------------------------- *)
\* strings are sequences of characters
S3Scheme == <<"s", "3", ":", "/", "/">>
PathOk == S3Scheme \o <<"b", "/", "k">>          \* "s3://b/k"
PathNoKey == S3Scheme \o <<"b">>                 \* "s3://b"
PathBadScheme == <<"h", ":", "/", "/", "b", "/", "k">>   \* "h://b/k"
S3Paths == {PathOk, PathNoKey, PathBadScheme}

\* str.startswith
StartsWith(str, prefix) ==
    Len(str) >= Len(prefix) /\ SubSeq(str, 1, Len(prefix)) = prefix

RECURSIVE Replace(_, _)
\* str.replace(old, "")
Replace(str, old) ==
    IF str = <<>> THEN <<>>
    ELSE IF StartsWith(str, old)
         THEN Replace(SubSeq(str, Len(old) + 1, Len(str)), old)
         ELSE <<Head(str)>> \o Replace(Tail(str), old)

\* str.split("/", 1)
SplitOnce(str) ==
    LET slashes == {i \in 1..Len(str) : str[i] = "/"}
    IN  IF slashes = {} THEN <<str>>
        ELSE LET i == CHOOSE i \in slashes : \A j \in slashes : i <= j
             IN  <<SubSeq(str, 1, i - 1), SubSeq(str, i + 1, Len(str))>>

\* workers.py 44: s3_path.replace("s3://", "").split("/", 1)
PathParts(s3_path) == SplitOnce(Replace(s3_path, S3Scheme))

(* ------------------------------ RQ jobs --------------------------------- *)
\* queue.enqueue(func, ..., result_ttl=3600, failure_ttl=3600)
Enqueue(func, suspect_id, s3_path, top_k) ==
    /\ Len(jobs) < MaxJobs
    /\ jobs' = Append(jobs, [func |-> func, suspect_id |-> suspect_id,
                             s3_path |-> s3_path, top_k |-> top_k,
                             status |-> "queued", result |-> NoDict,
                             exc_info |-> None])
    /\ queue' = Append(queue, Len(jobs) + 1)
    /\ seen' = Append(seen, "none")
    /\ UNCHANGED webhook

(* ------------------ faces_controller.register_face ---------------------- *)
\* lines 49-124; the request carries an image, an s3_path or neither, and no
\* metadata field (lines 59-62 then give the empty dict)
register_face(t, suspect_id, image, s3_path) ==
    /\ pc[t] = "idle"
    /\ image = NoImage \/ s3_path = NoPath
    /\ IF suspect_id = NoneId \/ suspect_id = 0
       THEN /\ ret' = [op |-> "register_face", status |-> 400,
                       extract |-> "none"]
            /\ UNCHANGED <<regVars, pc, loc, jobVars>>
       ELSE IF image # NoImage
       THEN LET embedding_result == generate_embeddings(image) IN
            IF embedding_result.status # 200
            THEN /\ ret' = [op |-> "register_face",
                            status |-> embedding_result.status,
                            extract |-> Extracted(image)]
                 /\ UNCHANGED <<regVars, pc, loc, jobVars>>
            ELSE /\ InsertFaceBegin(t, "register_face", suspect_id,
                                    embedding_result.embedding, FALSE,
                                    EmptyMap, NoPath, 0, image.detections)
                 /\ ret' = [op |-> "generate_embeddings",
                            caller |-> "register_face",
                            extract |-> Extracted(image),
                            detections |-> image.detections,
                            embedding |-> embedding_result.embedding]
                 /\ UNCHANGED jobVars
       ELSE IF s3_path # NoPath
       THEN IF ~StartsWith(s3_path, S3Scheme)
            THEN /\ ret' = [op |-> "register_face", status |-> 400,
                            extract |-> "none"]
                 /\ UNCHANGED <<regVars, pc, loc, jobVars>>
            ELSE /\ Enqueue("process_register_face", suspect_id, s3_path, 0)
                 /\ ret' = [op |-> "register_face", status |-> 202,
                            extract |-> "none", job_id |-> Len(jobs) + 1]
                 /\ UNCHANGED <<regVars, pc, loc>>
       ELSE /\ ret' = [op |-> "register_face", status |-> 400,
                       extract |-> "none"]
            /\ UNCHANGED <<regVars, pc, loc, jobVars>>
    /\ UNCHANGED <<now, facenet>>

(* ------------------- faces_controller.search_faces ---------------------- *)
\* lines 228-241: get_suspect_metadata is defined nowhere (milvus_service is
\* the only wildcard import), so a winner with a suspect_id ends in the
\* handler's except branch
SearchResponseStatus(result) ==
    IF result.status # 200 THEN result.status
    ELSE IF result.winner_match # NoDict THEN 500
    ELSE 200

\* lines 210-270
search_faces(t, image, s3_path, top_k) ==
    /\ pc[t] = "idle"
    /\ image = NoImage \/ s3_path = NoPath
    /\ IF image # NoImage
       THEN /\ \E result \in detect_and_search_faces(image, top_k) :
                 ret' = [op |-> "search_faces",
                         status |-> SearchResponseStatus(result),
                         extract |-> Extracted(image),
                         detections |-> image.detections, top_k |-> top_k,
                         result |-> result]
            /\ UNCHANGED <<regVars, pc, loc, jobVars>>
       ELSE IF s3_path # NoPath
       THEN IF ~StartsWith(s3_path, S3Scheme)
            THEN /\ ret' = [op |-> "search_faces", status |-> 400,
                            extract |-> "none"]
                 /\ UNCHANGED <<regVars, pc, loc, jobVars>>
            ELSE /\ Enqueue("process_search_face_worker", NoneId, s3_path, top_k)
                 /\ ret' = [op |-> "search_faces", status |-> 202,
                            extract |-> "none", job_id |-> Len(jobs) + 1]
                 /\ UNCHANGED <<regVars, pc, loc>>
       ELSE /\ ret' = [op |-> "search_faces", status |-> 400,
                       extract |-> "none"]
            /\ UNCHANGED <<regVars, pc, loc, jobVars>>
    /\ UNCHANGED <<now, facenet>>

(* ------------------------ run_worker / workers -------------------------- *)
\* a faulty variant of worker_dequeue: the job is read and left on the queue
worker_dequeue_peek(w) ==
    /\ pc[w] = "idle"
    /\ queue # <<>>
    /\ LET j == Head(queue) IN
         /\ jobs' = [jobs EXCEPT ![j].status = "started"]
         /\ pc' = [pc EXCEPT ![w] = "job_run"]
         /\ loc' = [loc EXCEPT ![w] = [caller |-> "worker", job |-> j]]
    /\ queue' = queue
    /\ ret' = NoRet
    /\ UNCHANGED <<regVars, webhook, seen>>
    /\ UNCHANGED <<now, facenet>>

\* run_worker.py 22-26: the worker takes the next job of the queue and marks
\* it started
worker_dequeue(w) ==
    /\ pc[w] = "idle"
    /\ queue # <<>>
    /\ LET j == Head(queue) IN
         /\ jobs' = [jobs EXCEPT ![j].status = "started"]
         /\ pc' = [pc EXCEPT ![w] = "job_run"]
         /\ loc' = [loc EXCEPT ![w] = [caller |-> "worker", job |-> j]]
    /\ queue' = Tail(queue)
    /\ ret' = NoRet
    /\ UNCHANGED <<regVars, webhook, seen>>
    /\ UNCHANGED <<now, facenet>>

\* the except branch of process_register_face (workers.py 98-110)
RegisterFailed(w, j, error) ==
    /\ pc' = [pc EXCEPT ![w] = "notify"]
    /\ loc' = [loc EXCEPT ![w] =
                 [caller |-> "process_register_face", job |-> j,
                  suspect_id |-> jobs[j].suspect_id, status |-> "failed",
                  face_id |-> NoneId, error |-> error]]

\* workers.py 35-79: path check, download, extraction, up to the id that
\* insert_face derives; downloaded is FALSE when download_fileobj raises
process_register_face(w, downloaded, image) ==
    /\ pc[w] = "job_run"
    /\ LET j == loc[w].job
           s3_path == jobs[j].s3_path
           embedding_result == generate_embeddings(image)
       IN
       /\ jobs[j].func = "process_register_face"
       /\ IF ~StartsWith(s3_path, S3Scheme) \/ Len(PathParts(s3_path)) # 2
          THEN /\ RegisterFailed(w, j, "invalid_s3_path")
               /\ ret' = [op |-> "process_register_face",
                          extract |-> "none", error |-> "invalid_s3_path"]
               /\ UNCHANGED regVars
          ELSE IF ~downloaded
          THEN /\ RegisterFailed(w, j, "download_failed")
               /\ ret' = [op |-> "process_register_face",
                          extract |-> "none", error |-> "download_failed"]
               /\ UNCHANGED regVars
          ELSE IF embedding_result.status # 200
          THEN /\ RegisterFailed(w, j, "embedding_failed")
               /\ ret' = [op |-> "process_register_face",
                          extract |-> Extracted(image),
                          error |-> "embedding_failed"]
               /\ UNCHANGED regVars
          ELSE /\ InsertFaceBegin(w, "process_register_face",
                                  jobs[j].suspect_id,
                                  embedding_result.embedding, FALSE,
                                  EmptyMap, s3_path, j, image.detections)
               /\ ret' = [op |-> "generate_embeddings",
                          caller |-> "process_register_face",
                          extract |-> Extracted(image),
                          detections |-> image.detections,
                          embedding |-> embedding_result.embedding]
    /\ UNCHANGED jobVars
    /\ UNCHANGED <<now, facenet>>

\* a faulty variant of notify_java_completion: a delivery failure is raised
\* into the task function
notify_java_completion_raising(w, delivered) ==
    /\ pc[w] = "notify"
    /\ LET l == loc[w] IN
         /\ webhook' = Append(webhook,
                [jobId |-> l.job, suspectId |-> l.suspect_id,
                 status |-> l.status,
                 faceId |-> IF l.face_id = NoneId \/ l.face_id = 0
                            THEN NoneId ELSE l.face_id,
                 delivered |-> delivered])
         /\ loc' = [loc EXCEPT ![w] =
                      [caller |-> "worker", job |-> l.job,
                       raised |-> (l.status = "failed" \/ ~delivered),
                       value |-> IF l.status = "failed" \/ ~delivered THEN NoDict
                                 ELSE [face_id |-> l.face_id,
                                       suspect_id |-> l.suspect_id],
                       error |-> IF l.status = "failed" THEN l.error
                                 ELSE IF delivered THEN None
                                 ELSE "webhook_failed"]]
    /\ pc' = [pc EXCEPT ![w] = "job_return"]
    /\ ret' = NoRet
    /\ UNCHANGED <<regVars, jobs, queue, seen>>
    /\ UNCHANGED <<now, facenet>>

\* notify_java_completion, workers.py 338-394: one POST; delivered is FALSE
\* on a timeout, a connection error or a non-200 answer.  Afterwards the
\* task function returns its dict (91-96) or re-raises (112).
notify_java_completion(w, delivered) ==
    /\ pc[w] = "notify"
    /\ LET l == loc[w] IN
         /\ webhook' = Append(webhook,
                [jobId |-> l.job, suspectId |-> l.suspect_id,
                 status |-> l.status,
                 faceId |-> IF l.face_id = NoneId \/ l.face_id = 0
                            THEN NoneId ELSE l.face_id,
                 delivered |-> delivered])
         /\ loc' = [loc EXCEPT ![w] =
                      [caller |-> "worker", job |-> l.job,
                       raised |-> (l.status = "failed"),
                       value |-> IF l.status = "failed" THEN NoDict
                                 ELSE [face_id |-> l.face_id,
                                       suspect_id |-> l.suspect_id],
                       error |-> l.error]]
    /\ pc' = [pc EXCEPT ![w] = "job_return"]
    /\ ret' = NoRet
    /\ UNCHANGED <<regVars, jobs, queue, seen>>
    /\ UNCHANGED <<now, facenet>>

\* workers.py 232-236: the error dict the search task returns
ErrorDict(error) == [error |-> error]

\* process_search_face_worker, workers.py 141-236; downloaded / uploaded are
\* FALSE when the S3 call raises
process_search_face_worker(w, downloaded, image, uploaded) ==
    /\ pc[w] = "job_run"
    /\ LET j == loc[w].job
           s3_path == jobs[j].s3_path
           pathOk == /\ s3_path # NoPath
                     /\ StartsWith(s3_path, S3Scheme)
                     /\ Len(PathParts(s3_path)) = 2
       IN
       /\ jobs[j].func = "process_search_face_worker"
       /\ \E result \in (IF pathOk /\ downloaded
                         THEN detect_and_search_faces(image, jobs[j].top_k)
                         ELSE {[status |-> 0]}) :
            LET value ==
                  IF ~pathOk THEN ErrorDict("invalid_s3_path")
                  ELSE IF ~downloaded THEN ErrorDict("download_failed")
                  ELSE IF result.status # 200 THEN ErrorDict("processing_failed")
                  ELSE IF ~uploaded THEN ErrorDict("upload_failed")
                  ELSE [faces_count |-> result.faces,
                        winner_index |-> result.winner_index,
                        winner_match |-> result.winner_match]
            IN
            /\ loc' = [loc EXCEPT ![w] =
                         [caller |-> "worker", job |-> j, raised |-> FALSE,
                          value |-> value, error |-> None]]
            /\ ret' = [op |-> "process_search_face_worker",
                       extract |-> IF pathOk /\ downloaded
                                   THEN Extracted(image) ELSE "none",
                       detections |-> image.detections,
                       top_k |-> jobs[j].top_k,
                       result |-> result, value |-> value]
    /\ pc' = [pc EXCEPT ![w] = "job_return"]
    /\ UNCHANGED <<regVars, jobVars>>
    /\ UNCHANGED <<now, facenet>>

\* a faulty variant of JobEnd: every job ends finished
JobEndFinished(job, raised, value, error) ==
    [job EXCEPT !.status = "finished", !.result = value]

\* a faulty variant of JobEnd: a job whose task raised goes back to queued
JobEndRequeue(job, raised, value, error) ==
    IF raised
    THEN [job EXCEPT !.status = "queued", !.exc_info = error]
    ELSE [job EXCEPT !.status = "finished", !.result = value]

\* a faulty variant of JobEnd: a job whose task raised also gets a result
JobEndWithResult(job, raised, value, error) ==
    IF raised
    THEN [job EXCEPT !.status = "failed", !.exc_info = error,
                     !.result = ErrorDict(error)]
    ELSE [job EXCEPT !.status = "finished", !.result = value]

\* RQ after the task function: finished with the returned value, or failed
\* with the exception (no Retry is passed to enqueue)
JobEnd(job, raised, value, error) ==
    IF raised
    THEN [job EXCEPT !.status = "failed", !.exc_info = error]
    ELSE [job EXCEPT !.status = "finished", !.result = value]

worker_finish(w) ==
    /\ pc[w] = "job_return"
    /\ LET l == loc[w] IN
         jobs' = [jobs EXCEPT ![l.job] = JobEnd(jobs[l.job], l.raised, l.value, l.error)]
    /\ pc' = [pc EXCEPT ![w] = "idle"]
    /\ loc' = [loc EXCEPT ![w] = NoLoc]
    /\ ret' = NoRet
    /\ UNCHANGED <<regVars, queue, webhook, seen>>
    /\ UNCHANGED <<now, facenet>>

\* result_ttl=3600 / failure_ttl=3600: Redis drops the job an hour after it ended
job_expire(j) ==
    /\ j \in DOMAIN jobs
    /\ jobs[j].status \in {"finished", "failed"}
    /\ jobs' = [jobs EXCEPT ![j].status = "expired", ![j].result = NoDict,
                            ![j].exc_info = None]
    /\ ret' = NoRet
    /\ UNCHANGED <<regVars, pc, loc, queue, webhook, seen>>
    /\ UNCHANGED <<now, facenet>>

\* faces_controller.get_job_status, lines 813-865
get_job_status(t, job_id) ==
    /\ pc[t] = "idle"
    /\ IF job_id \notin DOMAIN jobs \/ jobs[job_id].status = "expired"
       THEN /\ ret' = [op |-> "get_job_status", job_id |-> job_id,
                       http |-> 404]
            /\ UNCHANGED seen
       ELSE LET job == jobs[job_id] IN
            /\ ret' = [op |-> "get_job_status", job_id |-> job_id,
                       http |-> 200,
                       status |-> job.status,
                       error |-> IF job.status = "failed" /\ job.exc_info # None
                                 THEN job.exc_info ELSE None,
                       result |-> job.result]
            /\ seen' = [seen EXCEPT ![job_id] = job.status]
    /\ UNCHANGED <<regVars, pc, loc, jobs, queue, webhook>>
    /\ UNCHANGED <<now, facenet>>

(* ------------------------------ Next ------------------------------------ *)
SuspectInputs == {NoneId, 0} \cup Suspects
TopKs == 1..MaxTopK

\* direct calls of the registry service and the registry routes, on the
\* threads T
RegistryOps(T) ==
    \/ \E t \in T, sid \in {NoneId} \cup Suspects, e \in Embeddings, q \in BOOLEAN :
          insert_face(t, sid, e, q, EmptyMap, NoPath)
    \/ \E t \in T, e \in Embeddings, k \in TopKs : search_similar_faces(t, e, k)
    \/ \E t \in T, f \in 1..(MaxRows + 1) : delete_face(t, f)
    \/ \E t \in T, sid \in {0} \cup Suspects : delete_faces_by_suspect(t, sid)
    \/ \E t \in T : clear_collection(t)

\* one request thread, where the claim is not about concurrent requests
OneThread == {CHOOSE t \in Threads : \A u \in Threads : t <= u}

\* the steps inside insert_face, and the registry's own housekeeping
InsertSteps ==
    \/ \E t \in Callers : insert_face_insert(t)
    \/ \E t \in Callers : insert_face_flush(t, TRUE)

\* the same with a registry that may fail between insert and flush
InsertFailSteps ==
    \/ \E t \in Callers : insert_face_insert(t)
    \/ \E t \in Callers, ok \in BOOLEAN : insert_face_flush(t, ok)

\* register and search with an uploaded image, on the request threads T
UploadOps(T) ==
    \/ \E t \in T, sid \in SuspectInputs, img \in Images :
          register_face(t, sid, img, NoPath)
    \/ \E t \in T, img \in Images, k \in TopKs : search_faces(t, img, NoPath, k)

\* register and search with an s3_path, or with neither image nor path
SubmitOps(T) ==
    \/ \E t \in T, sid \in SuspectInputs, p \in S3Paths \cup {NoPath} :
          register_face(t, sid, NoImage, p)
    \/ \E t \in T, p \in S3Paths \cup {NoPath}, k \in TopKs :
          search_faces(t, NoImage, p, k)

\* the worker processes W at work
WorkerOps(W) ==
    \/ \E w \in W : worker_dequeue(w)
    \/ \E w \in W, d \in BOOLEAN, img \in Images : process_register_face(w, d, img)
    \/ \E w \in W, d \in BOOLEAN : notify_java_completion(w, d)
    \/ \E w \in W, d \in BOOLEAN, img \in Images, u \in BOOLEAN :
          process_search_face_worker(w, d, img, u)
    \/ \E w \in W : worker_finish(w)

\* one worker process, where the claim is not about concurrent workers
OneWorker == {CHOOSE w \in Workers : \A u \in Workers : w <= u}

PollOps(T) ==
    \/ \E j \in 1..MaxJobs : job_expire(j)
    \/ \E t \in T, j \in 1..MaxJobs : get_job_status(t, j)


\* the registry under its service functions and routes
NextRegistry == RegistryOps(Threads) \/ InsertSteps \/ Compaction
SpecRegistry == Init /\ [][NextRegistry]_vars

\* the same with one caller: every call runs to its end before the next
NextSequential == RegistryOps(OneThread) \/ InsertSteps \/ Compaction
SpecSequential == Init /\ [][NextSequential]_vars

\* update_face over rows inserted with metadata, one caller, with the clock
UpdateOps(T) ==
    \/ \E t \in T, sid \in Suspects, e \in Embeddings, q \in BOOLEAN,
          md \in MetaMaps : insert_face(t, sid, e, q, md, NoPath)
    \/ \E t \in T, f \in 1..(MaxRows + 1), sid \in {NoneId} \cup Suspects,
          md \in MetaMaps : update_face(t, f, sid, md)
    \/ \E t \in T : update_face_insert(t)
    \/ \E t \in T : update_face_flush(t)
    \/ \E t \in T, f \in 1..(MaxRows + 1) : delete_face(t, f)

NextUpdate == UpdateOps(OneThread) \/ InsertSteps \/ Compaction \/ Tick
SpecUpdate == Init /\ [][NextUpdate]_vars

\* the face pipeline: uploads, submissions and the worker, with deletes
NextFaces ==
    \/ UploadOps(OneThread) \/ (jobs = <<>> /\ SubmitOps(OneThread))
    \/ WorkerOps(OneWorker) \/ InsertSteps \/ Compaction
    \/ \E t \in OneThread, f \in 1..(MaxRows + 1) : delete_face(t, f)
SpecFaces == Init /\ [][NextFaces]_vars

\* the job lifecycle: submissions, the worker and the status route
NextJobs ==
    \/ SubmitOps(OneThread) \/ WorkerOps(OneWorker) \/ InsertSteps
    \/ PollOps(OneThread)
    \/ \E t \in OneThread : clear_collection(t)
SpecJobs == Init /\ [][NextJobs]_vars

\* several workers listening on the queue
NextWorkers ==
    \/ SubmitOps(OneThread) \/ WorkerOps(Workers) \/ InsertSteps
    \/ \E j \in 1..MaxJobs : job_expire(j)
SpecWorkers == Init /\ [][NextWorkers]_vars

\* images with one face
SingleFace == {img \in Images : Len(img.detections) = 1}

\* the listing of an identity's records on the threads R while the threads T
\* register, insert, update and delete
ListOps(T, R) ==
    \/ \E t \in T, sid \in Suspects, img \in SingleFace :
          register_face(t, sid, img, NoPath)
    \/ \E t \in T, e \in Embeddings, q \in BOOLEAN :
          insert_face(t, NoneId, e, q, EmptyMap, NoPath)
    \/ \E t \in R, sid \in {0} \cup Suspects : list_faces_by_suspect(t, sid)
    \/ \E t \in T, f \in 1..(MaxRows + 1), sid \in {NoneId} \cup Suspects :
          update_face(t, f, sid, EmptyMap)
    \/ \E t \in T : update_face_insert(t)
    \/ \E t \in T : update_face_flush(t)
    \/ \E t \in T, f \in 1..(MaxRows + 1) : delete_face(t, f)
    \/ \E t \in T, sid \in {0} \cup Suspects : delete_faces_by_suspect(t, sid)

NextList == ListOps(OneThread, Threads) \/ InsertSteps \/ Compaction
SpecList == Init /\ [][NextList]_vars

\* the comparison of two images
CompareOps(T) ==
    \/ \E t \in T, i1 \in Images, i2 \in Images, th \in Thresholds :
          compare_embeddings(t, i1, i2, th)
    \/ \E t \in T, i1 \in Images \cup {NoImage}, i2 \in Images \cup {NoImage} :
          compare(t, i1, i2)

NextCompare == CompareOps(OneThread)
SpecCompare == Init /\ [][NextCompare]_vars

\* the registry service with its connection, one caller
ConnectOps(T) ==
    \E t \in T, results \in [1..MaxAttempts -> BOOLEAN] : connect_milvus(t, results)

NextConnect ==
    ConnectOps(OneThread) \/ RegistryOps(OneThread) \/ InsertSteps \/ Compaction
SpecConnect == Init /\ [][NextConnect]_vars

\* register jobs against a registry that may fail
NextRegisterJobs ==
    SubmitOps(OneThread) \/ WorkerOps(OneWorker) \/ InsertFailSteps
SpecRegisterJobs == Init /\ [][NextRegisterJobs]_vars

\* the threads T of one process asking for the FaceNet model
FacenetOps(T) ==
    \/ \E t \in T : get_facenet_model(t)
    \/ \E t \in T : get_facenet_model_acquire(t)
    \/ \E t \in T : get_facenet_model_check(t)
    \/ \E t \in T, ok \in BOOLEAN : get_facenet_model_build(t, ok)
    \/ \E t \in T : get_facenet_model_return(t)

\* one process whose threads are all the callers
NextFacenet == FacenetOps(Callers)
SpecFacenet == Init /\ [][NextFacenet]_vars

Next ==
    \/ RegistryOps(Threads) \/ InsertFailSteps \/ Compaction \/ UploadOps(Threads) \/ SubmitOps(Threads)
    \/ WorkerOps(Workers) \/ PollOps(Threads) \/ UpdateOps(Threads) \/ Tick
    \/ \E t \in Threads, sid \in {0} \cup Suspects : list_faces_by_suspect(t, sid)
    \/ CompareOps(Threads) \/ ConnectOps(Threads) \/ FacenetOps(Threads)

Spec == Init /\ [][Next]_vars

(* ------------------------------ claims ---------------------------------- *)
InsertPcs == {"insert_insert", "insert_flush"}
Terminal == {"finished", "failed"}
SearchOps == {"search_faces", "process_search_face_worker"}
RegisterCallers == {"register_face", "process_register_face"}

\* C1: after any sequence of insert_face and delete operations no two live
\* records of the registry share an id
C1_LiveIdsUnique ==
    \A i, j \in DOMAIN registry :
        i # j => registry[i].face_id # registry[j].face_id

\* C2: insert_face calls that run concurrently are given distinct ids
C2_ConcurrentIdsDistinct ==
    \A t, u \in Callers :
        (t # u /\ pc[t] \in InsertPcs /\ pc[u] \in InsertPcs)
            => loc[t].face_id # loc[u].face_id

\* C3: every match that search_similar_faces returns stands for a record
\* with is_query = false
C3_SearchExcludesQueries ==
    (ret.op = "search_similar_faces" /\ ret.outcome = "ok")
        => \A i \in DOMAIN ret.hit_rows : ~registry[ret.hit_rows[i]].is_query

\* a search returned a match while a flushed query record shared its id
\* with an enrolled record, so that the id filter let the query record pass
C3_Witness ==
    /\ ret.op = "search_similar_faces"
    /\ ret.outcome = "ok"
    /\ Len(ret.matches) >= 1
    /\ \E i, j \in DOMAIN registry :
          /\ registry[i].is_query /\ registry[i].flushed
          /\ ~registry[j].is_query /\ registry[j].flushed
          /\ registry[i].face_id = registry[j].face_id

StatusRank(status) ==
    CASE status = "none" -> 0
      [] status = "queued" -> 1
      [] status = "started" -> 2
      [] status \in Terminal -> 3

\* C4: the statuses that repeated reads of a job report never go back:
\* queued, then started, then finished or failed, and a terminal status stays
C4_StatusMonotonic ==
    [][\A j \in DOMAIN seen :
          /\ StatusRank(seen'[j]) >= StatusRank(seen[j])
          /\ seen[j] \in Terminal => seen'[j] = seen[j]]_vars

\* a read reports a terminal status for a job
C4_Witness ==
    /\ ret.op = "get_job_status"
    /\ ret.http = 200
    /\ ret.status \in Terminal
    /\ seen[ret.job_id] = ret.status

\* C5: a job whose pipeline ran into an error never ends finished: no
\* finished job carries an error as its result
C5_ErrorsEndFailed ==
    \A j \in DOMAIN jobs :
        jobs[j].status = "finished" => "error" \notin DOMAIN jobs[j].result

\* workers.py 41-46: the paths the task functions accept
PathValid(s3_path) ==
    StartsWith(s3_path, S3Scheme) /\ Len(PathParts(s3_path)) = 2

\* the pipeline of register job j went into its except branch: the failure
\* was posted to the webhook
RegisterRaised(j) ==
    \E i \in DOMAIN webhook :
        webhook[i].jobId = j /\ webhook[i].status = "failed"

RegisterErrors ==
    {"invalid_s3_path", "download_failed", "embedding_failed", "registry_error"}

\* C5, as the code has it: a register job whose pipeline raised ends failed
\* with the error's message and otherwise finished with the new id; a search
\* job never ends failed: the error its pipeline raised is the result
\* {"error": message} of a finished job
C5_ErrorOutcomes ==
    \A j \in DOMAIN jobs :
        LET job == jobs[j] IN
        job.status \in Terminal =>
            IF job.func = "process_register_face"
            THEN /\ IF RegisterRaised(j)
                    THEN job.status = "failed" /\ job.exc_info \in RegisterErrors
                    ELSE job.status = "finished" /\ "face_id" \in DOMAIN job.result
                 /\ ~PathValid(job.s3_path) =>
                        job.status = "failed" /\ job.exc_info = "invalid_s3_path"
            ELSE /\ job.status = "finished"
                 /\ ~PathValid(job.s3_path) =>
                        job.result = ErrorDict("invalid_s3_path")

\* a register job failed for want of a face and a search job finished with
\* an error as its result
C5_Witness ==
    \E j, k \in DOMAIN jobs :
        /\ jobs[j].func = "process_register_face"
        /\ jobs[j].status = "failed"
        /\ jobs[j].exc_info = "embedding_failed"
        /\ jobs[k].func = "process_search_face_worker"
        /\ jobs[k].status = "finished"
        /\ "error" \in DOMAIN jobs[k].result

\* the step reported an image that could not be decoded or had no face
ExtractionFailed(r) ==
    /\ r.op \in SearchOps \cup RegisterCallers \cup {"generate_embeddings"}
    /\ r.extract \in {"corrupt", "no_face"}

C6_Step ==
    /\ ExtractionFailed(ret') =>
          /\ registry' = registry
          /\ CASE ret'.op \in {"register_face", "search_faces"} ->
                      ret'.status \in {400, 500}
               [] ret'.op = "process_register_face" ->
                      \E w \in Workers :
                          pc'[w] = "notify" /\ loc'[w].status = "failed"
               [] ret'.op = "process_search_face_worker" ->
                      "error" \in DOMAIN ret'.value
               [] OTHER -> FALSE
    /\ \A t \in Callers :
          (pc[t] = "insert_insert" /\ loc[t].caller \in RegisterCallers
              /\ registry' # registry)
            => Len(loc[t].detections) >= 1

\* C6: when the image cannot be decoded or holds no face, register and
\* search, on the request thread or in a job, give an error outcome and
\* leave the records of the registry as they were; a register only writes
\* after an extraction with at least one detection
C6_NoWriteWithoutFace == [][C6_Step]_vars

\* a job or a request came to the error outcome with records in the registry
C6_Witness ==
    /\ ExtractionFailed(ret)
    /\ ret.op \in {"process_register_face", "process_search_face_worker"}
    /\ Len(registry) >= 1

\* the smallest distance among the candidates returned for one detection
ListBest(matches) ==
    IF matches = <<>> THEN Inf
    ELSE CHOOSE d \in {matches[i].distance : i \in DOMAIN matches} :
            \A i \in DOMAIN matches : d <= matches[i].distance

SearchSucceeded ==
    /\ ret.op \in SearchOps
    /\ ret.extract = "ok"
    /\ ret.result.status = 200

\* C7: the winner_index of detect_and_search_faces names a detection whose
\* best candidate is at most as far as the best candidate of every other
\* detection, a detection without candidates counting as infinitely far
C7_WinnerIsClosest ==
    SearchSucceeded =>
        LET r == ret.result
            N == Len(ret.detections)
        IN  /\ r.winner_index + 1 \in 1..N
            /\ \A j \in 1..N :
                  ListBest(r.per_face[r.winner_index + 1])
                      <= ListBest(r.per_face[j])

\* the second of two detections won with a strictly smaller distance
C7_Witness ==
    /\ SearchSucceeded
    /\ Len(ret.detections) = 2
    /\ ret.result.winner_index = 1
    /\ ListBest(ret.result.per_face[2]) < ListBest(ret.result.per_face[1])
    /\ ListBest(ret.result.per_face[1]) < Inf

\* C8: after a search that extracted a face and ran the registry holds a record
\* with is_query = true and no identity for the probe embedding
C8_ProbeRecorded ==
    SearchSucceeded
        => \E i \in DOMAIN registry :
              /\ registry[i].is_query
              /\ registry[i].suspect_id = 0
              /\ \E j \in DOMAIN ret.detections :
                    registry[i].embedding = ret.detections[j]

\* the smallest distance from embedding to the enrolled records among the
\* first n - 1 rows
BestEnrolled(n, embedding) ==
    LET ds == {L2(registry[i].embedding, embedding) :
                 i \in {k \in 1..(n - 1) : ~registry[k].is_query}}
    IN  IF ds = {} THEN Inf ELSE CHOOSE d \in ds : \A x \in ds : d <= x

C10_InsertedIsFoundFirst ==
    (/\ ret.op = "search_similar_faces"
     /\ ret.outcome = "ok"
     /\ \A t \in Callers : pc[t] \notin InsertPcs
     /\ \E i \in DOMAIN registry :
           /\ registry[i].flushed
           /\ ~registry[i].is_query
           /\ registry[i].embedding = ret.embedding)
        => (Len(ret.matches) >= 1 /\ ret.matches[1].distance = 0)

\* C11: the list search_similar_faces returns has at most top_k elements, in
\* non-decreasing distance with records at equal distance in increasing id
\* order, and starts with a nearest enrolled record
C11_SortedByDistanceThenId ==
    (ret.op = "search_similar_faces" /\ ret.outcome = "ok")
        => LET m == ret.matches IN
           /\ Len(m) <= ret.top_k
           /\ \A i, j \in DOMAIN m :
                 i < j =>
                    \/ m[i].distance < m[j].distance
                    \/ (m[i].distance = m[j].distance
                          /\ m[i].face_id <= m[j].face_id)
           /\ (m # <<>> /\ \A t \in Callers : pc[t] \notin InsertPcs)
                 => \A k \in DOMAIN registry :
                       ~registry[k].is_query
                          => m[1].distance
                                <= L2(registry[k].embedding, ret.embedding)

\* the rows of rows with face_id
RowsWithId(rows, face_id) == {i \in DOMAIN rows : rows[i].face_id = face_id}

UpdateSucceeded == ret.op = "update_face" /\ ret.status = 200

\* C12: after a successful update_face the record is still there with its
\* id, embedding, timestamp, is_query flag and s3_path, and every other
\* record is as it was before the call
C12_UpdateKeepsTheRest ==
    UpdateSucceeded =>
        \E i \in RowsWithId(ret.before, ret.face_id),
           j \in RowsWithId(registry, ret.face_id) :
            /\ registry[j].embedding = ret.before[i].embedding
            /\ registry[j].timestamp = ret.before[i].timestamp
            /\ registry[j].is_query = ret.before[i].is_query
            /\ registry[j].s3_path = ret.before[i].s3_path
            /\ SelectSeqIdx(registry, DOMAIN registry \ {j}, 1)
                  = SelectSeqIdx(ret.before, DOMAIN ret.before \ {i}, 1)

\* C13: after update_face with the patch P on a record whose metadata was
\* M, the stored metadata holds every key of P with P's value and every
\* other key of M with M's value
C13_MetadataMerged ==
    UpdateSucceeded =>
        \A i \in RowsWithId(ret.before, ret.face_id) :
        \A j \in RowsWithId(registry, ret.face_id) :
            LET M == ret.before[i].metadata.map
                P == ret.new_metadata
                stored == registry[j].metadata.map
            IN  /\ \A k \in DOMAIN P : k \in DOMAIN stored /\ stored[k] = P[k]
                /\ \A k \in DOMAIN M \ DOMAIN P :
                      k \in DOMAIN stored /\ stored[k] = M[k]

C14_Step ==
    ret'.op = "delete_face" =>
        IF ~hasCollection
        THEN ret'.status = 404 /\ registry' = registry
        ELSE /\ ret'.status = 200
             /\ RowsWithId(registry', ret'.face_id) = {}
             /\ RowsWithId(registry, ret'.face_id) = {} => registry' = registry
             /\ ret'.delete_count
                   \in {Cardinality(RowsWithId(registry, ret'.face_id)), 1}
             /\ Len(registry') =
                   Len(registry) - Cardinality(RowsWithId(registry, ret'.face_id))

Posts(j) == {i \in DOMAIN webhook : webhook[i].jobId = j}

\* C15: whether or not its POST was delivered, a job is notified at most
\* once and ends as its pipeline did: finished with the new id after a
\* "completed" notification, failed after a "failed" one
C15_DeliveryFailureSwallowed ==
    \A j \in DOMAIN jobs :
        /\ Cardinality(Posts(j)) <= 1
        /\ jobs[j].status \in Terminal =>
              \A i \in Posts(j) :
                  IF webhook[i].status = "completed"
                  THEN /\ jobs[j].status = "finished"
                       /\ jobs[j].result.face_id = webhook[i].faceId
                  ELSE jobs[j].status = "failed"

\* a job ended finished although the POST of its notification failed
C15_Witness ==
    \E j \in DOMAIN jobs : \E i \in Posts(j) :
        /\ ~webhook[i].delivered
        /\ webhook[i].status = "completed"
        /\ jobs[j].status = "finished"

\* C16: once the notification of a job has been delivered, a status read of
\* the job reports a terminal state, never queued or started
C16_NotifiedAfterTerminal ==
    \A i \in DOMAIN webhook :
        webhook[i].delivered =>
            jobs[webhook[i].jobId].status \in Terminal \cup {"expired"}

\* C17: every job that has ended, register or search, has had its
\* completion notification posted
C17_EndedJobsNotified ==
    \A j \in DOMAIN jobs :
        jobs[j].status \in Terminal => Posts(j) # {}

\* C18: a submission answered with a job (202) carried a well-formed remote
\* reference (scheme, bucket and key) and, for a register, an identity id:
\* a malformed submission is rejected and enqueues nothing
C18_MalformedRejected ==
    (ret.op \in {"register_face", "search_faces"} /\ ret.status = 202) =>
        /\ PathValid(jobs[ret.job_id].s3_path)
        /\ ret.op = "register_face" =>
              jobs[ret.job_id].suspect_id \notin {NoneId, 0}

\* the enrolled records whose inserting path has passed flush and load
Enrolled == {i \in DOMAIN registry : registry[i].flushed /\ ~registry[i].is_query}

JobFound == ret.op = "get_job_status" /\ ret.http = 200

\* C20: a get_job_status response carries a result only when the status is
\* finished and the pipeline ran without error, and a non-null error only
\* when the status is failed
C20_ResultOnlyOnSuccess ==
    JobFound =>
        /\ ret.result # NoDict =>
              (ret.status = "finished" /\ "error" \notin DOMAIN ret.result)
        /\ ret.error # None => ret.status = "failed"

\* C20, amended: a response carries a result only when the status is
\* finished and a non-null error only when it is failed, never both; the
\* result of a register job is the record it enrolled, and only a search job
\* has its pipeline's error as its result
C20_ResultAndError ==
    JobFound =>
        /\ ret.result # NoDict => ret.status = "finished"
        /\ ret.error # None => (ret.status = "failed" /\ ret.result = NoDict)
        /\ ret.status = "finished" => ret.result # NoDict
        /\ (ret.result # NoDict
              /\ jobs[ret.job_id].func = "process_register_face")
              => "face_id" \in DOMAIN ret.result
        /\ (ret.result # NoDict /\ "error" \in DOMAIN ret.result)
              => jobs[ret.job_id].func = "process_search_face_worker"

\* a status read of a search job whose pipeline failed: finished, with the
\* error as its result and a null error field
C20_Witness ==
    /\ JobFound
    /\ ret.status = "finished"
    /\ ret.result # NoDict
    /\ "error" \in DOMAIN ret.result
    /\ ret.error = None

\* the job worker w is running, 0 when it is idle
Running(p, l, w) == IF p[w] = "idle" THEN 0 ELSE l[w].job

\* C21: no two workers run the same job at the same time; a job waits on the
\* queue only while it is queued; a job that ended finished or failed is
\* run by no worker again and keeps its status until Redis drops it
C21_Step ==
    /\ \A w, u \in Workers :
          (w # u /\ Running(pc', loc', w) # 0)
             => Running(pc', loc', w) # Running(pc', loc', u)
    /\ \A i \in DOMAIN queue' : jobs'[queue'[i]].status = "queued"
    /\ \A j \in DOMAIN jobs :
          jobs[j].status \in Terminal \cup {"expired"} =>
             /\ jobs'[j].status \in {jobs[j].status, "expired"}
             /\ jobs'[j].result \in {jobs[j].result, NoDict}
             /\ \A w \in Workers : Running(pc', loc', w) # j

C21_ExecutedOnce == [][C21_Step]_vars

\* two workers run two jobs at the same time while nothing else is queued
C21_Witness ==
    /\ \A w \in Workers : pc[w] # "idle"
    /\ Cardinality({loc[w].job : w \in Workers}) = NumWorkers
    /\ queue = <<>>

\* the ids of the enrolled records of identity s that passed the barrier and
\* are in the registry
ListedIds(s) ==
    {registry[i].face_id : i \in {k \in Enrolled : registry[k].suspect_id = s}}

\* the ids of the enrolled records of identity s that an update_face in
\* progress took out of the registry without moving them to another identity
UpdatingIds(s) ==
    {loc[t].face_id : t \in {u \in Threads :
        /\ pc[u] \in {"update_insert", "update_flush"}
        /\ loc[u].suspect_id = s
        /\ \E i \in DOMAIN loc[u].before :
              /\ loc[u].before[i].face_id = loc[u].face_id
              /\ loc[u].before[i].suspect_id = s
              /\ loc[u].before[i].flushed
              /\ ~loc[u].before[i].is_query}}

\* C22: list_faces_by_suspect(s) includes the id of every record registered
\* for s that has not been deleted or moved to another identity
C22_ListedUntilDeleted ==
    (ret.op = "list_faces_by_suspect" /\ ret.suspect_id \in Suspects) =>
        ListedIds(ret.suspect_id) \cup UpdatingIds(ret.suspect_id)
            \subseteq {ret.faces[i].face_id : i \in DOMAIN ret.faces}

\* a comparison that found a face in both images
Compared == ret.op \in {"compare_embeddings", "compare"} /\ ret.result.status = 200

\* C23: same_person is true exactly when the distance is below the
\* threshold (0.7 when the caller gives none): two images with the same
\* embedding are the same person for every positive threshold, and a
\* distance equal to the threshold is not the same person
C23_SamePersonBelowThreshold ==
    Compared =>
        LET e1 == ret.image1.detections[1]
            e2 == ret.image2.detections[1]
            r == ret.result
        IN  /\ r.distance_sq = SumSq(e1, e2, Dim)
            /\ ret.op = "compare" => ret.threshold = 7
            /\ r.same_person <=>
                  ~(ret.threshold * ret.threshold <= 100 * r.distance_sq)
            /\ (e1 = e2 /\ ret.threshold > 0) => r.same_person
            /\ 100 * r.distance_sq = ret.threshold * ret.threshold
                  => ~r.same_person

\* two embeddings at a distance equal to the threshold
C23_Witness ==
    /\ Compared
    /\ ret.result.distance_sq > 0
    /\ 100 * ret.result.distance_sq = ret.threshold * ret.threshold
    /\ ~ret.result.same_person

\* C24: no operation addressed to an integer identity returns or removes a
\* record inserted with a null identity: list_faces_by_suspect returns none,
\* and delete_faces_by_suspect removes none
C24_AnonymousUntouched ==
    /\ (ret.op = "list_faces_by_suspect" /\ ret.status = 200) =>
          \A i \in DOMAIN ret.faces :
              registry[i].suspect_id # StoredSuspect(NoneId)
    /\ (ret.op = "delete_faces_by_suspect" /\ ret.status = 200) =>
          ret.suspect_id # StoredSuspect(NoneId)

\* C25: when the first connection attempt fails and the second would
\* succeed, connect_milvus makes two attempts and returns without raising
C25_FallbackConnects ==
    (ret.op = "connect_milvus" /\ ~ret.results[1] /\ ret.results[2]) =>
        (ret.attempts = 2 /\ ~ret.raised)

\* C26: insert_face derives its id as the entity count it reads plus one,
\* then inserts one row under that id, then flushes, and returns that id
C26_Step ==
    \A t \in Callers :
       /\ (pc[t] = "idle" /\ pc'[t] = "insert_insert") =>
             (loc'[t].face_id = rowStat + 1 /\ registry' = registry)
       /\ (pc[t] = "insert_insert" /\ pc'[t] = "insert_flush") =>
             /\ Len(registry') = Len(registry) + 1
             /\ SubSeq(registry', 1, Len(registry)) = registry
             /\ registry'[Len(registry')].face_id = loc[t].face_id
             /\ ~registry'[Len(registry')].flushed
       /\ pc[t] = "insert_insert" => pc'[t] # "idle" \/ ret'.op # "insert_face"
                                        \/ ret'.outcome = "raise"
       /\ (pc[t] = "insert_flush" /\ pc'[t] # "insert_flush") =>
             /\ pc'[t] # "insert_insert"
             /\ Len(registry') = Len(registry)
             /\ (ret'.op = "insert_face" /\ ret'.outcome = "ok") =>
                   /\ ret'.face_id = loc[t].face_id
                   /\ Unflushed(registry') = {}

C26_IdIsCountPlusOne == [][C26_Step]_vars

\* an insert_face call returned 2, the id it derived from a count of 1
C26_Witness ==
    /\ ret.op = "insert_face"
    /\ ret.outcome = "ok"
    /\ ret.face_id = 2
    /\ \E i \in DOMAIN registry : registry[i].face_id = 2 /\ registry[i].flushed

\* a search that found at least one face in its image
SearchExtracted == ret.op \in SearchOps /\ ret.extract = "ok"

\* what C27 says of a successful result r for N detections
WinnerReported(r, N) ==
    /\ r.status = 200
    /\ r.winner_index \in 0..(N - 1)
    /\ r.winner_match = NoDict <=> \A j \in 1..N : r.per_face[j] = <<>>

\* C27: for every non-empty detection list detect_and_search_faces succeeds
\* with a winner_index in 0..N-1, and winner_match is null exactly when no
\* detection had a candidate
C27_WinnerAlways ==
    SearchExtracted => WinnerReported(ret.result, Len(ret.detections))

\* C27, amended: so it is while the collection exists; without the
\* collection the call answers 500
C27_WinnerWhileCollection ==
    SearchExtracted =>
        IF hasCollection
        THEN WinnerReported(ret.result, Len(ret.detections))
        ELSE ret.result.status = 500

\* two detections searched in a collection without enrolled records: winner
\* 0 with a null match
C27_Witness ==
    /\ SearchExtracted
    /\ hasCollection
    /\ Len(ret.detections) = 2
    /\ \A i \in DOMAIN registry : registry[i].is_query
    /\ ret.result.status = 200
    /\ ret.result.winner_index = 0
    /\ ret.result.winner_match = NoDict

\* the rows of rows under face_id that a reader is sure to see
SeenWithId(rows, face_id) ==
    {i \in FlushedLive(rows) : rows[i].face_id = face_id}

\* C28: update_face is all-or-nothing for its record: while it runs a
\* reader always finds a record under the id, and when it answers with an
\* error the record is there with its previous contents
C28_Step ==
    \A t \in Threads :
       /\ pc'[t] \in {"update_insert", "update_flush"} =>
             SeenWithId(registry', loc'[t].face_id) # {}
       /\ (pc[t] \in {"update_insert", "update_flush"}
             /\ ret'.op = "update_face" /\ ret'.status # 200) =>
             \E i \in SeenWithId(registry', loc[t].face_id) :
                 \E k \in DOMAIN loc[t].before : registry'[i] = loc[t].before[k]

C28_UpdateAllOrNothing == [][C28_Step]_vars

\* the rows written by register jobs: only they give a row its s3_path
JobRows == {i \in DOMAIN registry : registry[i].s3_path # NoPath}

\* the register jobs with the status in S
RegisterJobs(S) ==
    {j \in DOMAIN jobs : jobs[j].func = "process_register_face"
                            /\ jobs[j].status \in S}

\* C29: a register job that ends failed has left no record: there are at
\* most as many records of register jobs as jobs running or finished, and
\* once no job is running every such record is the faceId of a 'completed'
\* notification of a finished job
C29_FailedJobWroteNothing ==
    /\ Cardinality(JobRows) <= Cardinality(RegisterJobs({"started", "finished"}))
    /\ RegisterJobs({"started"}) = {} =>
          \A i \in JobRows : \E n \in DOMAIN webhook :
              /\ webhook[n].status = "completed"
              /\ webhook[n].faceId = registry[i].face_id
              /\ jobs[webhook[n].jobId].status = "finished"

\* C30: the model is constructed at most once, and every call of
\* get_facenet_model that returns gives that one instance, never None
C30_ModelBuiltOnce ==
    /\ facenet.built <= 1
    /\ facenet.model \in {0, 1}
    /\ (ret.op = "get_facenet_model" /\ ret.outcome = "ok") => ret.model = 1

\* a call returned the model while another thread, which had found _model
\* empty before the lock, holds the lock and finds it set
C30_Witness ==
    /\ ret.op = "get_facenet_model"
    /\ ret.outcome = "ok"
    /\ \E t \in Callers : pc[t] = "fn_check" /\ facenet.lock = t
    /\ facenet.model = 1

====
